---- MODULE Spec2Model ----
(***************************************************************************)
(* Model of services/paragraph-analysis/api.py: the Flask handler          *)
(* analyze_paragraph bound to POST /paragraph/analyze.                     *)
(*                                                                         *)
(* The hosting runtime may serve several requests in parallel.  Each       *)
(* thread of Threads runs the handler one statement at a time (pc is the   *)
(* source line about to be executed) on its own frame of local variables   *)
(* (data, paragraphs, response).  The only module-level state is the       *)
(* application object app.                                                 *)
(*                                                                         *)
(* Requests are the ones the framework treats as JSON requests: the body   *)
(* is either text that parses as JSON or text that does not.               *)
(***************************************************************************)
EXTENDS Integers, Sequences, FiniteSets, TLC

(* ---------------------------- bounds ----------------------------------- *)

\* longest paragraphs array, longest JSON string and largest JSON object
MaxLen == 2

Threads == {"t1", "t2"}

\* paragraph texts, characters of a JSON string, keys of a JSON object,
\* JSON numbers
Texts == {"A", "B"}
Chars == {"a", "b"}
Keys == {"k1", "k2", "k3"}
Nums == {0, 7}

(* ------------------------- JSON values --------------------------------- *)

\* sequences over S of length at most n
SeqsUpTo(S, n) == UNION {[1..k -> S] : k \in 0..n}

Distinct(s) == \A i, j \in 1..Len(s) : i # j => s[i] # s[j]

\* A parsed JSON value as Python holds it.  elems is the list's items, the
\* str's characters or the dict's keys (in insertion order); num is the
\* value of a number.
JVal(kind, elems, num) == [kind |-> kind, elems |-> elems, num |-> num]

JNull == JVal("null", <<>>, 0)
JTrue == JVal("true", <<>>, 0)
JFalse == JVal("false", <<>>, 0)
JNum(n) == JVal("number", <<>>, n)
JStr(cs) == JVal("string", cs, 0)
JArr(items) == JVal("array", items, 0)
JObj(keys) == JVal("object", keys, 0)

\* arrays of strings: what the contract expects in `paragraphs`
StringArrays == {JArr(s) : s \in SeqsUpTo(Texts, MaxLen)}

\* every value the `paragraphs` field can hold
FieldValues ==
  {JNull, JTrue, JFalse}
    \cup {JNum(n) : n \in Nums}
    \cup {JStr(s) : s \in SeqsUpTo(Chars, MaxLen)}
    \cup StringArrays
    \cup {JObj(s) : s \in {q \in SeqsUpTo(Keys, MaxLen) : Distinct(q)}}

\* values of a field the handler does not know
ExtraValues == {JNull, JArr(<<"A">>)}

NoFields == [f \in {} |-> JNull]

\* the fields of a top-level JSON object
ObjectFields ==
  {NoFields}
    \cup {[f \in {"paragraphs"} |-> v] : v \in FieldValues}
    \cup {[f \in {"extra"} |-> x] : x \in ExtraValues}
    \cup {[f \in {"paragraphs", "extra"} |->
             IF f = "paragraphs" THEN v ELSE x] :
            v \in FieldValues, x \in ExtraValues}

\* A request body: text that is not JSON ("garbage"), or JSON text whose
\* top-level value has the given kind; fields are the members of a
\* top-level object.
Body(syntax, kind, fields) ==
  [syntax |-> syntax, kind |-> kind, fields |-> fields]

NonObjectKinds == {"array", "string", "number", "true", "false", "null"}

Bodies ==
  {Body("garbage", "none", NoFields)}
    \cup {Body("json", k, NoFields) : k \in NonObjectKinds}
    \cup {Body("json", "object", fs) : fs \in ObjectFields}

NoBody == Body("none", "none", NoFields)

(* ----------------------- the handler's pieces -------------------------- *)

\* the module-level application object: Flask(__name__), CORS(app) and the
\* route table filled by the decorator
AppObject ==
  [cors |-> "*", routes |-> {<<"POST", "/paragraph/analyze">>}]

\* a Python value of the handler: what request.get_json() returns
PyData(kind, fields) == [kind |-> kind, fields |-> fields]

Unbound == PyData("unbound", NoFields)

\* request.get_json(): the parsed body, or BadRequest raised by the
\* framework when the text is not JSON
GetJsonSilent(body) ==
  [raised |-> FALSE,
   value |-> IF body.syntax = "json" THEN PyData(body.kind, body.fields)
             ELSE PyData("null", NoFields)]

GetJson(body) ==
  IF body.syntax = "json"
    THEN [raised |-> FALSE, value |-> PyData(body.kind, body.fields)]
    ELSE [raised |-> TRUE, value |-> Unbound]

\* only a dict has the attribute `get`
HasGetAlways(data) == TRUE

HasGet(data) == data.kind = "object"

\* dict.get(key, default)
DictGetAnyField(data, key, default) ==
  IF key \in DOMAIN data.fields THEN data.fields[key]
  ELSE IF DOMAIN data.fields # {}
    THEN data.fields[CHOOSE f \in DOMAIN data.fields : TRUE]
    ELSE default

DictGet(data, key, default) ==
  IF key \in DOMAIN data.fields THEN data.fields[key] ELSE default

\* data.get('paragraphs', [])
GetParagraphsNoDefault(data) == DictGet(data, "paragraphs", JNull)

GetParagraphs(data) == DictGet(data, "paragraphs", JArr(<<>>))

\* len() is defined for list, str and dict; TypeError for the rest
HasLen(v) == v.kind \in {"array", "string", "object"}

PyLenListOnly(v) == IF v.kind = "array" THEN Len(v.elems) ELSE 0

PyLen(v) == Len(v.elems)

\* range(n) as the sequence of the values it yields
RangeFromOne(n) == [k \in 1..n |-> k]

Range(n) == [k \in 1..n |-> k - 1]

\* the score 0.5 as numerator and denominator
Half == <<1, 2>>

\* the dict literal of lines 15-23
AnalysisData ==
  [sentimentScore |-> Half,
   readibilityScore |-> Half,
   topics |-> <<"topic1", "topic2">>,
   summary |-> "summary",
   suggestions |-> <<"suggestion1", "suggestion2">>,
   references |-> <<"reference1", "reference2">>,
   tags |-> <<"tag1", "tag2">>]

\* the list comprehension of lines 12-26
BuildResultsFromContent(paragraphs) ==
  [k \in 1..PyLen(paragraphs) |->
     [index |-> Range(PyLen(paragraphs))[k],
      analysisData |-> [AnalysisData EXCEPT !.summary = paragraphs.elems[k]]]]

BuildResults(paragraphs) ==
  [k \in 1..PyLen(paragraphs) |->
     [index |-> Range(PyLen(paragraphs))[k],
      analysisData |-> AnalysisData]]

\* what the client gets: the JSON object {analysisResults: [...]} when
\* error = "none", otherwise the framework's answer to the exception
\* `error` raised at source line `line`
Outcome(error, line, results) ==
  [error |-> error, line |-> line, analysisResults |-> results]

NoOutcome == Outcome("pending", 0, <<>>)

Frame(data, paragraphs, response) ==
  [data |-> data, paragraphs |-> paragraphs, response |-> response]

EmptyFrame == Frame(Unbound, JNull, <<>>)

(* ------------------------------ state ---------------------------------- *)

VARIABLES
  app,      \* the module-level application object
  request,  \* request[t]: the body of the request thread t is serving
  pc,       \* pc[t]: "idle", the line about to run ("L9".."L28"), "done"
  frame,    \* frame[t]: the local variables of t's call of the handler
  result    \* result[t]: what was sent back for request[t]

vars == <<app, request, pc, frame, result>>

\* assignment to a local variable of t's call
BindGlobal(fr, t, name, value) ==
  [u \in Threads |-> [fr[u] EXCEPT ![name] = value]]

Bind(fr, t, name, value) == [fr EXCEPT ![t][name] = value]

\* an exception leaves the handler: the framework answers with an error
Raise(t, error, line) ==
  /\ result' = [result EXCEPT ![t] = Outcome(error, line, <<>>)]
  /\ pc' = [pc EXCEPT ![t] = "done"]
  /\ frame' = [frame EXCEPT ![t] = EmptyFrame]

Init ==
  /\ app = AppObject
  /\ request = [t \in Threads |-> NoBody]
  /\ pc = [t \in Threads |-> "idle"]
  /\ frame = [t \in Threads |-> EmptyFrame]
  /\ result = [t \in Threads |-> NoOutcome]

\* the runtime dispatches a POST /paragraph/analyze to a free thread
Receive(t, body) ==
  /\ pc[t] = "idle"
  /\ <<"POST", "/paragraph/analyze">> \in app.routes
  /\ request' = [request EXCEPT ![t] = body]
  /\ pc' = [pc EXCEPT ![t] = "L9"]
  /\ UNCHANGED <<app, frame, result>>

\* line 9: data = request.get_json()
ParseBody(t) ==
  /\ pc[t] = "L9"
  /\ LET r == GetJson(request[t]) IN
       IF r.raised
         THEN Raise(t, "BadRequest", 9)
         ELSE /\ frame' = Bind(frame, t, "data", r.value)
              /\ pc' = [pc EXCEPT ![t] = "L10"]
              /\ UNCHANGED result
  /\ UNCHANGED <<app, request>>

\* line 10: paragraphs = data.get('paragraphs', [])
ReadParagraphs(t) ==
  /\ pc[t] = "L10"
  /\ IF HasGet(frame[t].data)
       THEN /\ frame' = Bind(frame, t, "paragraphs",
                             GetParagraphs(frame[t].data))
            /\ pc' = [pc EXCEPT ![t] = "L11"]
            /\ UNCHANGED result
       ELSE Raise(t, "AttributeError", 10)
  /\ UNCHANGED <<app, request>>

\* lines 11-27: response = {"analysisResults": [... for i in range(len(paragraphs))]}
BuildResponse(t) ==
  /\ pc[t] = "L11"
  /\ IF HasLen(frame[t].paragraphs)
       THEN /\ frame' = Bind(frame, t, "response",
                             BuildResults(frame[t].paragraphs))
            /\ pc' = [pc EXCEPT ![t] = "L28"]
            /\ UNCHANGED result
       ELSE Raise(t, "TypeError", 25)
  /\ UNCHANGED <<app, request>>

\* line 28: return jsonify(response); the frame is discarded
Return(t) ==
  /\ pc[t] = "L28"
  /\ result' = [result EXCEPT ![t] = Outcome("none", 28, frame[t].response)]
  /\ pc' = [pc EXCEPT ![t] = "done"]
  /\ frame' = [frame EXCEPT ![t] = EmptyFrame]
  /\ UNCHANGED <<app, request>>

\* the request/response cycle is over; the thread is free again
Finish(t) ==
  /\ pc[t] = "done"
  /\ pc' = [pc EXCEPT ![t] = "idle"]
  /\ request' = [request EXCEPT ![t] = NoBody]
  /\ result' = [result EXCEPT ![t] = NoOutcome]
  /\ UNCHANGED <<app, frame>>

Next ==
  \E t \in Threads :
    \/ \E body \in Bodies : Receive(t, body)
    \/ ParseBody(t)
    \/ ReadParagraphs(t)
    \/ BuildResponse(t)
    \/ Return(t)
    \/ Finish(t)

Spec == Init /\ [][Next]_vars

(* ------------------- the handler as one function ----------------------- *)

\* analyze_paragraph run from line 9 to line 28 on its own
analyze_paragraph(body) ==
  LET r == GetJson(body) IN
    IF r.raised THEN Outcome("BadRequest", 9, <<>>)
    ELSE IF ~HasGet(r.value) THEN Outcome("AttributeError", 10, <<>>)
    ELSE LET paragraphs == GetParagraphs(r.value) IN
           IF ~HasLen(paragraphs) THEN Outcome("TypeError", 25, <<>>)
           ELSE Outcome("none", 28, BuildResults(paragraphs))

(* ----------------------------- properties ------------------------------ *)

Done(t) == pc[t] = "done"

Answered(t) == Done(t) /\ result[t].error = "none"

IsObject(b) == b.syntax = "json" /\ b.kind = "object"

HasParagraphs(b) == IsObject(b) /\ "paragraphs" \in DOMAIN b.fields

\* the indices of results are 0..n-1 in order
IndexedInOrder(results, n) ==
  /\ Len(results) = n
  /\ \A k \in 0..(n - 1) : results[k + 1].index = k

\* two object bodies agree on `paragraphs`: both absent or both the same
SameParagraphs(b, c) ==
  /\ HasParagraphs(b) <=> HasParagraphs(c)
  /\ HasParagraphs(b) => b.fields["paragraphs"] = c.fields["paragraphs"]

\* C1: a request whose body is an object with a `paragraphs` array of N
\* strings is answered with exactly N records, the k-th with index k.
C1_OneRecordPerParagraph ==
  \A t \in Threads :
    (Done(t) /\ HasParagraphs(request[t])
       /\ request[t].fields["paragraphs"] \in StringArrays)
    => /\ result[t].error = "none"
       /\ IndexedInOrder(result[t].analysisResults,
                         Len(request[t].fields["paragraphs"].elems))

C1_Witness ==
  \E t \in Threads :
    /\ Answered(t)
    /\ HasParagraphs(request[t])
    /\ request[t].fields["paragraphs"] \in StringArrays
    /\ Len(request[t].fields["paragraphs"].elems) >= 2
    /\ Len(result[t].analysisResults) >= 2

\* the analysisData of the HTTP contract (section 6 of the specification)
ContractFieldNames ==
  {"sentimentScore", "readabilityScore", "topics", "summary", "suggestions",
   "references", "tags"}

\* C2: every returned record's analysisData has exactly the contract's
\* field names, with the contract's values.
C2_ContractAnalysisData ==
  \A t \in Threads :
    Answered(t) =>
      \A k \in 1..Len(result[t].analysisResults) :
        LET d == result[t].analysisResults[k].analysisData IN
          /\ DOMAIN d = ContractFieldNames
          /\ \A f \in {"sentimentScore", "readabilityScore"} \cap DOMAIN d :
               d[f] = Half
          /\ d.topics = <<"topic1", "topic2">>
          /\ d.summary = "summary"
          /\ d.suggestions = <<"suggestion1", "suggestion2">>
          /\ d.references = <<"reference1", "reference2">>
          /\ d.tags = <<"tag1", "tag2">>

\* C3: every request whose body is a JSON object completes with a normal
\* analysisResults response, whatever `paragraphs` holds.
C3_NoErrorForObjectBody ==
  \A t \in Threads :
    (Done(t) /\ IsObject(request[t])) => result[t].error = "none"

\* C4: a body without `paragraphs` and a body with `paragraphs: []` are both
\* answered with the empty analysisResults, and neither is an error.
C4_AbsentIsEmpty ==
  \A t \in Threads :
    (Done(t) /\ IsObject(request[t])
       /\ (HasParagraphs(request[t])
             => request[t].fields["paragraphs"] = JArr(<<>>)))
    => result[t] = Outcome("none", 28, <<>>)

C4_Witness ==
  \E t, u \in Threads :
    /\ Answered(t) /\ Answered(u)
    /\ IsObject(request[t]) /\ ~HasParagraphs(request[t])
    /\ HasParagraphs(request[u])
    /\ request[u].fields["paragraphs"] = JArr(<<>>)
    /\ result[t].analysisResults = <<>>
    /\ result[u].analysisResults = <<>>

\* C5: two requests whose `paragraphs` arrays have the same length get the
\* same response, and all records of one response carry the same
\* analysisData.
C5_ContentIndependent ==
  /\ \A t, u \in Threads :
       (Done(t) /\ Done(u)
          /\ HasParagraphs(request[t]) /\ HasParagraphs(request[u])
          /\ request[t].fields["paragraphs"] \in StringArrays
          /\ request[u].fields["paragraphs"] \in StringArrays
          /\ Len(request[t].fields["paragraphs"].elems)
               = Len(request[u].fields["paragraphs"].elems))
       => result[t] = result[u]
  /\ \A t \in Threads :
       Answered(t) =>
         \A j, k \in 1..Len(result[t].analysisResults) :
           result[t].analysisResults[j].analysisData
             = result[t].analysisResults[k].analysisData

C5_Witness ==
  \E t, u \in Threads :
    /\ Answered(t) /\ Answered(u)
    /\ HasParagraphs(request[t]) /\ HasParagraphs(request[u])
    /\ request[t].fields["paragraphs"] \in StringArrays
    /\ request[u].fields["paragraphs"] \in StringArrays
    /\ Len(request[t].fields["paragraphs"].elems) >= 2
    /\ Len(request[t].fields["paragraphs"].elems)
         = Len(request[u].fields["paragraphs"].elems)
    /\ \A k \in 1..Len(request[t].fields["paragraphs"].elems) :
         request[t].fields["paragraphs"].elems[k]
           # request[u].fields["paragraphs"].elems[k]
    /\ Len(result[t].analysisResults) >= 2

\* C6: a request whose body is not JSON ends in the error raised by the
\* body-parsing step of line 9; the handler goes no further and no
\* analysisResults response is produced.
C6_UnparseableBodyFails ==
  \A t \in Threads :
    request[t].syntax = "garbage" =>
      /\ pc[t] \in {"L9", "done"}
      /\ frame[t] = EmptyFrame
      /\ Done(t) => result[t] = Outcome("BadRequest", 9, <<>>)

C6_Witness ==
  \E t \in Threads :
    /\ Done(t)
    /\ request[t].syntax = "garbage"
    /\ result[t].error = "BadRequest"

\* C7: nothing outlives a request and calls do not affect each other: the
\* application object never changes and every response is the one the
\* handler gives when run on that request alone.
C7_CallsIndependent ==
  /\ app = AppObject
  /\ \A t \in Threads :
       /\ Done(t) => result[t] = analyze_paragraph(request[t])
       /\ pc[t] \in {"idle", "done"} => frame[t] = EmptyFrame

\* a response was sent while another call, on another body, was between
\* its statements
C7_Witness ==
  \E t, u \in Threads :
    /\ t # u
    /\ Answered(t)
    /\ Len(result[t].analysisResults) >= 1
    /\ pc[u] = "L11"
    /\ frame[u].paragraphs # request[t].fields["paragraphs"]
    /\ request[u] # request[t]

\* C8: two object bodies that agree on `paragraphs` get the same response,
\* whatever other fields they have.
C8_OnlyParagraphsMatters ==
  \A t, u \in Threads :
    (Done(t) /\ Done(u) /\ IsObject(request[t]) /\ IsObject(request[u])
       /\ SameParagraphs(request[t], request[u]))
    => result[t] = result[u]

C8_Witness ==
  \E t, u \in Threads :
    /\ Answered(t) /\ Answered(u)
    /\ IsObject(request[t]) /\ IsObject(request[u])
    /\ SameParagraphs(request[t], request[u])
    /\ "extra" \in DOMAIN request[t].fields
    /\ "extra" \notin DOMAIN request[u].fields
    /\ ~HasParagraphs(request[t])

\* C9: when `paragraphs` is a string of k characters or an object with k
\* keys, the response has k records indexed 0..k-1.
C9_LengthOfAnySizedValue ==
  \A t \in Threads :
    (Done(t) /\ HasParagraphs(request[t])
       /\ request[t].fields["paragraphs"].kind \in {"string", "object"})
    => /\ result[t].error = "none"
       /\ IndexedInOrder(result[t].analysisResults,
                         Len(request[t].fields["paragraphs"].elems))

C9_Witness ==
  \E t, u \in Threads :
    /\ Answered(t) /\ Answered(u)
    /\ HasParagraphs(request[t]) /\ HasParagraphs(request[u])
    /\ request[t].fields["paragraphs"].kind = "string"
    /\ request[u].fields["paragraphs"].kind = "object"
    /\ Len(request[t].fields["paragraphs"].elems) >= 2
    /\ Len(request[u].fields["paragraphs"].elems) >= 2
    /\ Len(result[t].analysisResults) >= 2
    /\ Len(result[u].analysisResults) >= 2

\* C10: a body that is valid JSON but not an object fails at the field
\* lookup of line 10 and never yields an analysisResults response.
C10_NonObjectBodyFails ==
  \A t \in Threads :
    (request[t].syntax = "json" /\ request[t].kind # "object") =>
      /\ pc[t] \in {"L9", "L10", "done"}
      /\ Done(t) => result[t] = Outcome("AttributeError", 10, <<>>)

C10_Witness ==
  \E t, u \in Threads :
    /\ Done(t) /\ Done(u)
    /\ request[t].syntax = "json" /\ request[t].kind = "array"
    /\ request[u].syntax = "json" /\ request[u].kind = "null"
    /\ result[t].error = "AttributeError"
    /\ result[u].error = "AttributeError"

====
